---------------------------- MODULE Spec2Model ----------------------------
(* Request/response core of the LDAP client: Conn.Modify and the Modify    *)
(* request encoder (modify.go), Connection.Compare and its encoder, and    *)
(* the dispatcher they run on (allocator, registry of reply slots, receive *)
(* loop, Close).  The dispatcher's code is not among the sources; it is    *)
(* modelled from the design document (sections 4.1, 4.3, 4.4, 5, 7).       *)
EXTENDS Integers, Sequences, FiniteSets, TLC

(***************************************************************************)
(* Bounds of the model.                                                    *)
(***************************************************************************)
NumCallers == 2      \* concurrent callers (goroutines) on the connection
MaxID == 2           \* message ids the allocator issues before the model stops calling
MaxMods == 2         \* Mods a ModifyRequest is grown to

Callers == 1..NumCallers
IDs == 0..MaxID

(***************************************************************************)
(* Program constants.                                                      *)
(***************************************************************************)
ModAdd == 0
ModDelete == 1
ModReplace == 2

ResultSuccess == 0
ResultCompareFalse == 5
ResultCompareTrue == 6
ResultOther == 80

ErrorNetwork == 200
ErrorDebugging == 203
ErrorEncoding == 204
ErrorClosing == 205

\* ModMap: operation kind -> LDIF keyword; a missing key reads as "".
ModMap(op) ==
    CASE op = ModAdd -> "add"
      [] op = ModDelete -> "delete"
      [] op = ModReplace -> "replace"
      [] OTHER -> ""

(***************************************************************************)
(* Errors.  A Go error value is nil, an *Error of this package, or some    *)
(* other error type.                                                       *)
(***************************************************************************)
NilError == [type |-> "nil", ResultCode |-> 0, Err |-> ""]

\* NewError / newError: an *Error carrying a result code and a message.
NewError(code, msg) == [type |-> "Error", ResultCode |-> code, Err |-> msg]

(***************************************************************************)
(* BER packets: a tagged value tree.                                       *)
(***************************************************************************)
\* ber.Encode(class, TypeConstructed, tag, nil, _): a node without children yet.
Encode(class, tag) == [ClassType |-> class, Tag |-> tag, Children |-> <<>>]

\* ber.NewInteger / ber.NewString: a primitive node carrying a value.
NewInteger(tag, n) == [ClassType |-> "Universal", Tag |-> tag, Value |-> n]
NewString(s) == [ClassType |-> "Universal", Tag |-> "OctetString", Value |-> s]

\* packet.AppendChild(child)
AppendChild(p, child) == [p EXCEPT !.Children = Append(@, child)]

\* The nil *ber.Packet.
NilPacket == [ClassType |-> "nil", Tag |-> "nil", Children |-> <<>>]
IsNil(p) == p.ClassType = "nil"

(***************************************************************************)
(* Request encoders.                                                       *)
(***************************************************************************)
\* for _, val := range mod.Modification.Values { valuesSet.AppendChild(NewString(val)) }
RECURSIVE encodeValues(_, _)
encodeValues(valuesSet, values) ==
    IF values = <<>> THEN valuesSet
    ELSE encodeValues(AppendChild(valuesSet, NewString(Head(values))), Tail(values))

\* Faulty variant of encodeMod: a Mod without values gets no value set.
encodeModOmitsEmptySet(mod) ==
    LET op == NewInteger("Enumerated", mod.ModOperation)
        name == NewString(mod.Modification.Name)
        valuesSet == encodeValues(Encode("Universal", "Set"), mod.Modification.Values)
        partAttr == IF mod.Modification.Values = <<>>
                    THEN AppendChild(Encode("Universal", "Sequence"), name)
                    ELSE AppendChild(AppendChild(Encode("Universal", "Sequence"), name),
                                     valuesSet)
    IN  AppendChild(AppendChild(Encode("Universal", "Sequence"), op), partAttr)

\* One change record: SEQUENCE { operation ENUMERATED, PartialAttribute }.
encodeMod(mod) ==
    LET op == NewInteger("Enumerated", mod.ModOperation)
        name == NewString(mod.Modification.Name)
        valuesSet == encodeValues(Encode("Universal", "Set"), mod.Modification.Values)
        partAttr == AppendChild(AppendChild(Encode("Universal", "Sequence"), name), valuesSet)
    IN  AppendChild(AppendChild(Encode("Universal", "Sequence"), op), partAttr)

\* Faulty variant of encodeMods: each change is put in front of the earlier ones.
RECURSIVE encodeModsReversed(_, _)
encodeModsReversed(seqOfChanges, mods) ==
    IF mods = <<>> THEN seqOfChanges
    ELSE encodeModsReversed([seqOfChanges EXCEPT !.Children = <<encodeMod(Head(mods))>> \o @],
                            Tail(mods))

\* for _, mod := range req.Mods { ...; seqOfChanges.AppendChild(modification) }
RECURSIVE encodeMods(_, _)
encodeMods(seqOfChanges, mods) ==
    IF mods = <<>> THEN seqOfChanges
    ELSE encodeMods(AppendChild(seqOfChanges, encodeMod(Head(mods))), Tail(mods))

encodeModifyRequest(req) ==
    LET modpacket == AppendChild(Encode("Application", "ModifyRequest"), NewString(req.DN))
        seqOfChanges == encodeMods(Encode("Universal", "Sequence"), req.Mods)
    IN  AppendChild(modpacket, seqOfChanges)


\* Faulty variant of ModifyEnvelope: the envelope carries id 0, not messageID.
ModifyEnvelopeZeroID(id, req) ==
    LET packet == AppendChild(Encode("Universal", "Sequence"), NewInteger("Integer", 0))
    IN  AppendChild(packet, encodeModifyRequest(req))

\* Modify's envelope: SEQUENCE { messageID INTEGER, ModifyRequest }.
ModifyEnvelope(id, req) ==
    LET packet == AppendChild(Encode("Universal", "Sequence"), NewInteger("Integer", id))
    IN  AppendChild(packet, encodeModifyRequest(req))

\* encodeItem: the codec rejects an item it cannot encode.
BadValue == "\\zz"
encodeItem(items) ==
    IF \E i \in 1..Len(items) : items[i] = BadValue
    THEN [p |-> NilPacket, err |-> NewError(ErrorEncoding, "cannot encode item")]
    ELSE [p |-> AppendChild(AppendChild(Encode("Universal", "Sequence"),
                                        NewString(items[1])), NewString(items[3])),
          err |-> NilError]

encodeCompareRequest(req) ==
    LET p == AppendChild(Encode("Application", "CompareRequest"), NewString(req.DN))
        ava == encodeItem(<<req.Name, "=", req.Value>>)
    IN  IF ava.err.type # "nil" THEN [p |-> NilPacket, err |-> ava.err]
        ELSE [p |-> AppendChild(p, ava.p), err |-> NilError]

\* requestBuildPacket: the envelope of a request, with its controls.
BadControl == "badcontrol"
requestBuildPacket(id, opPacket, controls) ==
    IF \E i \in 1..Len(controls) : controls[i] = BadControl
    THEN [p |-> NilPacket, err |-> NewError(ErrorEncoding, "cannot encode control")]
    ELSE [p |-> AppendChild(AppendChild(Encode("Universal", "Sequence"),
                                        NewInteger("Integer", id)), opPacket),
          err |-> NilError]

NewCompareRequest(dn, name, value) == [DN |-> dn, Name |-> name, Value |-> value, Controls |-> <<>>]

\* The correlation identifier an envelope carries (its first child).
PacketMessageID(p) == p.Children[1].Value

(***************************************************************************)
(* Reply PDUs and the result interpreter.                                  *)
(***************************************************************************)
\* A well-formed reply: SEQUENCE { messageID, response { code, matchedDN, text } }.
ReplyPacket(id, code, text) ==
    LET response == AppendChild(AppendChild(AppendChild(Encode("Application", "Response"),
                        NewInteger("Enumerated", code)), NewString("")), NewString(text))
    IN  AppendChild(AppendChild(Encode("Universal", "Sequence"), NewInteger("Integer", id)),
                    response)

\* A reply without a parseable body: the message id and nothing else.
GarbledPacket(id) == AppendChild(Encode("Universal", "Sequence"), NewInteger("Integer", id))

HasBody(p) == Len(p.Children) >= 2 /\ Len(p.Children[2].Children) = 3

getLDAPResultCode(p) ==
    IF HasBody(p)
    THEN [code |-> p.Children[2].Children[1].Value,
          description |-> p.Children[2].Children[3].Value]
    ELSE [code |-> ErrorNetwork, description |-> "Invalid packet format"]

\* addLDAPDescriptions: labels the nodes of a reply for printing; it fails on
\* a reply it cannot walk.
addLDAPDescriptions(p) ==
    IF HasBody(p) THEN NilError
    ELSE NewError(ErrorDebugging, "Cannot process packet to add descriptions")

(***************************************************************************)
(* State.                                                                  *)
(***************************************************************************)
VARIABLES
    isClosing,   \* Connection: it has begun closing
    Debug,       \* Connection: the debug flag
    nextID,      \* Connection: the next correlation identifier to issue
    slot,        \* Connection: registry, message id -> single-use reply slot
    outbound,    \* transport: ids of the requests the peer holds unanswered
    pc,          \* caller: where it stands in Modify / Compare
    op,          \* caller: the operation it runs
    messageID,   \* caller: local messageID
    ok,          \* caller: what the allocator signalled for this call
    packet,      \* caller: local packet (the request, then the reply)
    channel,     \* caller: the reply channel sendMessage returned (NoChannel: nil)
    ret,         \* caller: what the call returned
    sent,        \* caller: request PDUs this call has written to the transport
    finished,    \* caller: this call has run finishMessage(messageID)
    allocs,      \* caller: message ids this call has taken from the allocator
    submits,     \* caller: times this call has submitted its request (sendMessage)
    senderr,     \* caller: the error sendMessage returned to this call
    builderr,    \* caller: the error encoding the request or building its packet gave
    modReq,      \* the ModifyRequest under construction
    encoded,     \* the last result of encodeModifyRequest(modReq)
    dump,        \* the last result of modReq.DumpModRequest()
    built        \* how modReq was built: the dn given, the Mods added in call order

connVars == <<isClosing, Debug, nextID, slot, outbound>>
callVars == <<pc, op, messageID, ok, packet, channel, ret, sent, finished, allocs, submits,
              senderr, builderr>>
reqVars == <<modReq, encoded, dump, built>>
vars == <<isClosing, Debug, nextID, slot, outbound, pc, op, messageID, ok, packet,
          channel, ret, sent, finished, allocs, submits, senderr, builderr, modReq,
          encoded, dump, built>>

NoChannel == -1
NoSlot == [st |-> "none", pkt |-> NilPacket, n |-> 0]
EmptySlot == [st |-> "empty", pkt |-> NilPacket, n |-> 0]
NoReturn == [value |-> FALSE, err |-> NilError]
NoDump == "(none)"

\* Inputs of the model.
\* (result code, diagnostic text) of the replies the peer sends.
Replies ==
    { <<ResultSuccess, "">>, <<ResultCompareFalse, "no">>, <<ResultCompareTrue, "yes">>,
      <<ResultOther, "other">> }
CompareRequests ==
    { NewCompareRequest("dn", "cn", "v"),
      NewCompareRequest("dn", "cn", BadValue),
      [NewCompareRequest("dn", "cn", "v") EXCEPT !.Controls = <<BadControl>>] }

NewModifyRequest(dn) == [DN |-> dn, Mods |-> <<>>]

(***************************************************************************)
(* Dispatcher.                                                             *)
(***************************************************************************)
\* nextMessageID: a fresh id and ok=true while open, ok=false once closing.
nextMessageID == [id |-> IF isClosing THEN 0 ELSE nextID, ok |-> ~isClosing]
AllocatorNext == IF isClosing THEN nextID ELSE nextID + 1
CanAllocate == isClosing \/ nextID <= MaxID

\* sendMessage(packet): what submitting can come to.  "sent": the slot is
\* registered and the PDU written; "writefail": the slot is registered and
\* the transport write fails; "closed": the connection is closing, nothing
\* is registered or written and no channel is returned.
SendOutcomes == IF isClosing THEN {"closed"} ELSE {"sent", "writefail"}
sendMessage(p, outcome) ==
    LET id == PacketMessageID(p) IN
    CASE outcome = "sent" ->
           [channel |-> id, err |-> NilError, registers |-> TRUE, writes |-> TRUE]
      [] outcome = "writefail" ->
           [channel |-> NoChannel, err |-> NewError(ErrorNetwork, "write failed"),
            registers |-> TRUE, writes |-> FALSE]
      [] OTHER ->
           [channel |-> NoChannel, err |-> NilError, registers |-> FALSE, writes |-> FALSE]

\* The registry and the transport after sendMessage(p) came to r.
SlotAfterSend(p, r) ==
    IF r.registers THEN [slot EXCEPT ![PacketMessageID(p)] = EmptySlot] ELSE slot
OutboundAfterSend(p, r) ==
    IF r.writes THEN outbound \cup {PacketMessageID(p)} ELSE outbound

\* finishMessage(id): the slot of id leaves the registry.
finishMessage(id) == [slot EXCEPT ![id] = NoSlot]

\* Faulty variant of Deliver: a PDU nobody waits for is kept in a slot of its own.
DeliverToAnySlot(pdu) ==
    LET id == PacketMessageID(pdu) IN
    IF slot[id].st \in {"empty", "none"}
    THEN [slot EXCEPT ![id] = [st |-> "full", pkt |-> pdu, n |-> @.n + 1]]
    ELSE slot

\* The receive loop hands one inbound PDU to the slot waiting on its id, once;
\* a PDU nobody waits for is dropped.
Deliver(pdu) ==
    LET id == PacketMessageID(pdu) IN
    IF slot[id].st = "empty"
    THEN [slot EXCEPT ![id] = [st |-> "full", pkt |-> pdu, n |-> @.n + 1]]
    ELSE slot

\* The id of the PDU has a slot in the registry.
HasWaiter(pdu) == slot[PacketMessageID(pdu)].st # "none"

\* packet = <-channel: possible once the slot holds a reply or was closed.
CanReceive(ch) == ch # NoChannel /\ slot[ch].st \in {"full", "closed"}
Received(ch) == IF slot[ch].st = "full" THEN slot[ch].pkt ELSE NilPacket

\* Close: the connection begins closing; every waiting slot gets the closed signal.
CloseSlots == [i \in IDs |-> IF slot[i].st = "empty" THEN [slot[i] EXCEPT !.st = "closed"]
                            ELSE slot[i]]

(***************************************************************************)
(* Conn.Modify.                                                            *)
(***************************************************************************)
\* Faulty variant of ModifySendResult: a nil channel without error is not
\* looked at, and Modify goes on to await.
ModifySendResultIgnoresNilChannel(r) ==
    IF r.err.type # "nil" THEN [returns |-> TRUE, err |-> r.err]
    ELSE [returns |-> FALSE, err |-> NilError]

\* After sendMessage: return its error, or a network error when it gave no
\* channel; otherwise go on to await (and only then is finishMessage deferred).
ModifySendResult(r) ==
    IF r.err.type # "nil" THEN [returns |-> TRUE, err |-> r.err]
    ELSE IF r.channel = NoChannel
         THEN [returns |-> TRUE, err |-> NewError(ErrorNetwork, "Could not send message")]
         ELSE [returns |-> FALSE, err |-> NilError]

\* Faulty variant of ModifyAfterSend: a failed submission is tried again.
ModifyAfterSendRetries(m) == IF m.returns THEN "send" ELSE "await"

\* Where Modify goes after sendMessage: it returns, or it awaits the reply.
ModifyAfterSend(m) == IF m.returns THEN "done" ELSE "await"

\* Faulty variant of ModifyResult: the diagnostic text is lost.
ModifyResultNoText(debug, p) ==
    IF IsNil(p) THEN NewError(ErrorNetwork, "Could not retrieve message")
    ELSE IF debug /\ addLDAPDescriptions(p).type # "nil"
         THEN NewError(ErrorDebugging, addLDAPDescriptions(p).Err)
         ELSE LET r == getLDAPResultCode(p)
              IN  IF r.code # 0 THEN NewError(r.code, "") ELSE NilError

\* From the received packet to Modify's return value.
ModifyResult(debug, p) ==
    IF IsNil(p) THEN NewError(ErrorNetwork, "Could not retrieve message")
    ELSE IF debug /\ addLDAPDescriptions(p).type # "nil"
         THEN NewError(ErrorDebugging, addLDAPDescriptions(p).Err)
         ELSE LET r == getLDAPResultCode(p)
              IN  IF r.code # 0 THEN NewError(r.code, r.description) ELSE NilError

\* messageID := l.nextMessageID(); packet := envelope(messageID, encodeModifyRequest(modReq))
ModifyCall(c) ==
    /\ pc[c] = "idle"
    /\ CanAllocate
    /\ op' = [op EXCEPT ![c] = "Modify"]
    /\ messageID' = [messageID EXCEPT ![c] = nextMessageID.id]
    /\ ok' = [ok EXCEPT ![c] = nextMessageID.ok]
    /\ nextID' = AllocatorNext
    /\ packet' = [packet EXCEPT ![c] = ModifyEnvelope(nextMessageID.id, modReq)]
    /\ pc' = [pc EXCEPT ![c] = "send"]
    /\ allocs' = [allocs EXCEPT ![c] = @ + 1]
    /\ UNCHANGED <<isClosing, Debug, slot, outbound, channel, ret, sent, finished,
                   submits, senderr, builderr, reqVars>>

\* channel, err := l.sendMessage(packet), and the two early returns.
ModifySend(c) ==
    /\ pc[c] = "send" /\ op[c] = "Modify"
    /\ \E outcome \in SendOutcomes :
         LET r == sendMessage(packet[c], outcome)
             m == ModifySendResult(r)
         IN  /\ slot' = SlotAfterSend(packet[c], r)
             /\ outbound' = OutboundAfterSend(packet[c], r)
             /\ sent' = [sent EXCEPT ![c] = @ + (IF r.writes THEN 1 ELSE 0)]
             /\ channel' = [channel EXCEPT ![c] = r.channel]
             /\ senderr' = [senderr EXCEPT ![c] = r.err]
             /\ ret' = IF m.returns THEN [ret EXCEPT ![c] = [value |-> FALSE, err |-> m.err]]
                       ELSE ret
             /\ pc' = [pc EXCEPT ![c] = ModifyAfterSend(m)]
    /\ submits' = [submits EXCEPT ![c] = @ + 1]
    /\ UNCHANGED <<isClosing, Debug, nextID, op, messageID, ok, packet, finished,
                   allocs, builderr, reqVars>>

\* packet = <-channel, then the rest of Modify: interpret the packet, return,
\* and run the deferred finishMessage(messageID).
ModifyAwait(c) ==
    /\ pc[c] = "await" /\ op[c] = "Modify"
    /\ CanReceive(channel[c])
    /\ LET p == Received(channel[c])
       IN  /\ packet' = [packet EXCEPT ![c] = p]
           /\ ret' = [ret EXCEPT ![c] = [value |-> FALSE, err |-> ModifyResult(Debug, p)]]
    /\ slot' = finishMessage(messageID[c])
    /\ finished' = [finished EXCEPT ![c] = TRUE]
    /\ pc' = [pc EXCEPT ![c] = "done"]
    /\ UNCHANGED <<isClosing, Debug, nextID, outbound, op, messageID, ok, channel,
                   sent, allocs, submits, senderr, builderr, reqVars>>

(***************************************************************************)
(* Connection.Compare.                                                     *)
(***************************************************************************)
\* Faulty variant of CompareStart: an encoding error is returned as a network error.
CompareStartWrapsBuildError(alloc, req) ==
    IF ~alloc.ok
    THEN [returns |-> TRUE, packet |-> NilPacket,
          ret |-> [value |-> FALSE,
                   err |-> NewError(ErrorClosing, "MessageID channel is closed.")]]
    ELSE LET e == encodeCompareRequest(req) IN
         IF e.err.type # "nil"
         THEN [returns |-> TRUE, packet |-> NilPacket,
               ret |-> [value |-> FALSE, err |-> NewError(ErrorNetwork, e.err.Err)]]
         ELSE LET b == requestBuildPacket(alloc.id, e.p, req.Controls) IN
              IF b.err.type # "nil"
              THEN [returns |-> TRUE, packet |-> NilPacket,
                    ret |-> [value |-> FALSE, err |-> NewError(ErrorNetwork, b.err.Err)]]
              ELSE [returns |-> FALSE, packet |-> b.p, ret |-> NoReturn]

\* Faulty variant of CompareStart: the allocator's ok is not looked at.
CompareStartIgnoresOk(alloc, req) ==
    LET e == encodeCompareRequest(req) IN
    IF e.err.type # "nil"
    THEN [returns |-> TRUE, packet |-> NilPacket, ret |-> [value |-> FALSE, err |-> e.err]]
    ELSE LET b == requestBuildPacket(alloc.id, e.p, req.Controls) IN
         IF b.err.type # "nil"
         THEN [returns |-> TRUE, packet |-> NilPacket, ret |-> [value |-> FALSE, err |-> b.err]]
         ELSE [returns |-> FALSE, packet |-> b.p, ret |-> NoReturn]

\* Compare up to the call of sendReqRespPacket: the closing check, the
\* encoding and the envelope.  returns=TRUE: Compare has returned ret.
CompareStart(alloc, req) ==
    IF ~alloc.ok
    THEN [returns |-> TRUE, packet |-> NilPacket,
          ret |-> [value |-> FALSE,
                   err |-> NewError(ErrorClosing, "MessageID channel is closed.")]]
    ELSE LET e == encodeCompareRequest(req) IN
         IF e.err.type # "nil"
         THEN [returns |-> TRUE, packet |-> NilPacket, ret |-> [value |-> FALSE, err |-> e.err]]
         ELSE LET b == requestBuildPacket(alloc.id, e.p, req.Controls) IN
              IF b.err.type # "nil"
              THEN [returns |-> TRUE, packet |-> NilPacket,
                    ret |-> [value |-> FALSE, err |-> b.err]]
              ELSE [returns |-> FALSE, packet |-> b.p, ret |-> NoReturn]

\* The err that encodeCompareRequest or requestBuildPacket hands to Compare; nil
\* when both succeed or when Compare returned before reaching them.
CompareBuildError(alloc, req) ==
    IF ~alloc.ok THEN NilError
    ELSE LET e == encodeCompareRequest(req) IN
         IF e.err.type # "nil" THEN e.err
         ELSE requestBuildPacket(alloc.id, e.p, req.Controls).err

\* Faulty variant of CompareResult: any *Error but CompareFalse counts as true.
CompareResultTrueUnlessFalse(err) ==
    IF err.type = "Error"
    THEN [value |-> err.ResultCode # ResultCompareFalse, err |-> NilError]
    ELSE [value |-> FALSE, err |-> err]

\* err = l.sendReqRespPacket(...); an *Error becomes (code = CompareTrue, nil),
\* anything else (false, err).
CompareResult(err) ==
    IF err.type = "Error"
    THEN [value |-> err.ResultCode = ResultCompareTrue, err |-> NilError]
    ELSE [value |-> FALSE, err |-> err]

\* sendReqRespPacket after submitting: a failed submission is a network error.
ReqRespSendResult(r) ==
    IF r.err.type # "nil" THEN [returns |-> TRUE, err |-> r.err]
    ELSE IF r.channel = NoChannel
         THEN [returns |-> TRUE, err |-> NewError(ErrorNetwork, "Could not send message")]
         ELSE [returns |-> FALSE, err |-> NilError]

\* sendReqRespPacket from the awaited packet to its error.
ReqRespResult(p) ==
    IF IsNil(p) THEN NewError(ErrorNetwork, "Could not retrieve message")
    ELSE LET r == getLDAPResultCode(p)
         IN  IF r.code # 0 THEN NewError(r.code, r.description) ELSE NilError

CompareCall(c) ==
    /\ pc[c] = "idle"
    /\ CanAllocate
    /\ \E req \in CompareRequests :
         LET s == CompareStart(nextMessageID, req)
         IN  /\ packet' = [packet EXCEPT ![c] = s.packet]
             /\ ret' = [ret EXCEPT ![c] = s.ret]
             /\ pc' = [pc EXCEPT ![c] = IF s.returns THEN "done" ELSE "send"]
             /\ builderr' = [builderr EXCEPT ![c] = CompareBuildError(nextMessageID, req)]
    /\ op' = [op EXCEPT ![c] = "Compare"]
    /\ messageID' = [messageID EXCEPT ![c] = nextMessageID.id]
    /\ ok' = [ok EXCEPT ![c] = nextMessageID.ok]
    /\ nextID' = AllocatorNext
    /\ allocs' = [allocs EXCEPT ![c] = @ + 1]
    /\ UNCHANGED <<isClosing, Debug, slot, outbound, channel, sent, finished,
                   submits, senderr, reqVars>>

\* sendReqRespPacket: submit; on failure release the slot and return.
CompareSend(c) ==
    /\ pc[c] = "send" /\ op[c] = "Compare"
    /\ \E outcome \in SendOutcomes :
         LET r == sendMessage(packet[c], outcome)
             m == ReqRespSendResult(r)
         IN  /\ outbound' = OutboundAfterSend(packet[c], r)
             /\ sent' = [sent EXCEPT ![c] = @ + (IF r.writes THEN 1 ELSE 0)]
             /\ channel' = [channel EXCEPT ![c] = r.channel]
             /\ senderr' = [senderr EXCEPT ![c] = r.err]
             /\ IF m.returns
                THEN /\ slot' = finishMessage(messageID[c])
                     /\ finished' = [finished EXCEPT ![c] = TRUE]
                     /\ ret' = [ret EXCEPT ![c] = CompareResult(m.err)]
                     /\ pc' = [pc EXCEPT ![c] = "done"]
                ELSE /\ slot' = SlotAfterSend(packet[c], r)
                     /\ UNCHANGED <<finished, ret>>
                     /\ pc' = [pc EXCEPT ![c] = "await"]
    /\ submits' = [submits EXCEPT ![c] = @ + 1]
    /\ UNCHANGED <<isClosing, Debug, nextID, op, messageID, ok, packet, allocs,
                   builderr, reqVars>>

\* sendReqRespPacket: await the reply, release the slot, interpret; Compare
\* maps the error and returns.
CompareAwait(c) ==
    /\ pc[c] = "await" /\ op[c] = "Compare"
    /\ CanReceive(channel[c])
    /\ LET p == Received(channel[c])
       IN  /\ packet' = [packet EXCEPT ![c] = p]
           /\ ret' = [ret EXCEPT ![c] = CompareResult(ReqRespResult(p))]
    /\ slot' = finishMessage(messageID[c])
    /\ finished' = [finished EXCEPT ![c] = TRUE]
    /\ pc' = [pc EXCEPT ![c] = "done"]
    /\ UNCHANGED <<isClosing, Debug, nextID, outbound, op, messageID, ok, channel,
                   sent, allocs, submits, senderr, builderr, reqVars>>

\* The caller takes the result and is free to call again.
Return(c) ==
    /\ pc[c] = "done"
    /\ pc' = [pc EXCEPT ![c] = "idle"]
    /\ op' = [op EXCEPT ![c] = "none"]
    /\ messageID' = [messageID EXCEPT ![c] = 0]
    /\ ok' = [ok EXCEPT ![c] = TRUE]
    /\ packet' = [packet EXCEPT ![c] = NilPacket]
    /\ channel' = [channel EXCEPT ![c] = NoChannel]
    /\ ret' = [ret EXCEPT ![c] = NoReturn]
    /\ sent' = [sent EXCEPT ![c] = 0]
    /\ finished' = [finished EXCEPT ![c] = FALSE]
    /\ allocs' = [allocs EXCEPT ![c] = 0]
    /\ submits' = [submits EXCEPT ![c] = 0]
    /\ senderr' = [senderr EXCEPT ![c] = NilError]
    /\ builderr' = [builderr EXCEPT ![c] = NilError]
    /\ UNCHANGED <<connVars, reqVars>>

(***************************************************************************)
(* The receive loop and Close.                                             *)
(***************************************************************************)
\* The reader reads the peer's reply to request id and hands it on.
ReaderReply(id) ==
    /\ ~isClosing
    /\ id \in outbound
    /\ \E r \in Replies : slot' = Deliver(ReplyPacket(id, r[1], r[2]))
    /\ outbound' = outbound \ {id}
    /\ UNCHANGED <<isClosing, Debug, nextID, callVars, reqVars>>

\* The reader reads a reply to request id that has no parseable body.
ReaderGarbled(id) ==
    /\ ~isClosing
    /\ id \in outbound
    /\ slot' = Deliver(GarbledPacket(id))
    /\ outbound' = outbound \ {id}
    /\ UNCHANGED <<isClosing, Debug, nextID, callVars, reqVars>>

\* The reader reads a PDU that answers no request the peer holds.
ReaderStray(id) ==
    /\ ~isClosing
    /\ id \notin outbound
    /\ slot' = Deliver(ReplyPacket(id, ResultSuccess, "stray"))
    /\ UNCHANGED <<isClosing, Debug, nextID, outbound, callVars, reqVars>>

Close ==
    /\ ~isClosing
    /\ isClosing' = TRUE
    /\ slot' = CloseSlots
    /\ outbound' = {}
    /\ UNCHANGED <<Debug, nextID, callVars, reqVars>>

Init ==
    /\ isClosing = FALSE
    /\ Debug \in BOOLEAN
    /\ nextID = 1
    /\ slot = [i \in IDs |-> NoSlot]
    /\ outbound = {}
    /\ pc = [c \in Callers |-> "idle"]
    /\ op = [c \in Callers |-> "none"]
    /\ messageID = [c \in Callers |-> 0]
    /\ ok = [c \in Callers |-> TRUE]
    /\ packet = [c \in Callers |-> NilPacket]
    /\ channel = [c \in Callers |-> NoChannel]
    /\ ret = [c \in Callers |-> NoReturn]
    /\ sent = [c \in Callers |-> 0]
    /\ finished = [c \in Callers |-> FALSE]
    /\ allocs = [c \in Callers |-> 0]
    /\ submits = [c \in Callers |-> 0]
    /\ senderr = [c \in Callers |-> NilError]
    /\ builderr = [c \in Callers |-> NilError]
    /\ modReq = NewModifyRequest("dn")
    /\ built = [dn |-> "dn", mods |-> <<>>]
    /\ encoded = NilPacket
    /\ dump = NoDump

Next ==
    \/ \E c \in Callers : ModifyCall(c)
    \/ \E c \in Callers : ModifySend(c)
    \/ \E c \in Callers : ModifyAwait(c)
    \/ \E c \in Callers : CompareCall(c)
    \/ \E c \in Callers : CompareSend(c)
    \/ \E c \in Callers : CompareAwait(c)
    \/ \E c \in Callers : Return(c)
    \/ \E id \in IDs : ReaderReply(id)
    \/ \E id \in IDs : ReaderGarbled(id)
    \/ \E id \in IDs : ReaderStray(id)
    \/ Close

Spec == Init /\ [][Next]_vars

\* A goroutine blocked in <-channel runs once the channel can be received from.
FairSpec ==
    /\ Init /\ [][Next]_vars
    /\ \A c \in Callers : WF_vars(ModifyAwait(c)) /\ WF_vars(CompareAwait(c))

(***************************************************************************)
(* Building and encoding a ModifyRequest.                                  *)
(***************************************************************************)
DNs == {"dn", "cn=test"}
ModOps == {ModAdd, ModDelete, ModReplace, 3}
Attrs == {"cn", "sn"}
ValueLists == {<<>>, <<"a">>, <<"a", "b">>, <<"b", "a">>}

NewMod(modType, attr, values) ==
    [ModOperation |-> modType, Modification |-> [Name |-> attr, Values |-> values]]

AllMods == {NewMod(t, a, v) : t \in ModOps, a \in Attrs, v \in ValueLists}

\* Faulty variant of AddModResult: the Mod is put in front of the earlier ones.
AddModResultPrepends(req, mod) == [req EXCEPT !.Mods = <<mod>> \o @]

\* req.Mods = append(req.Mods, *mod)
AddModResult(req, mod) == [req EXCEPT !.Mods = Append(@, mod)]

\* req.Mods = append(req.Mods, mods...)
AddModsResult(req, mods) == [req EXCEPT !.Mods = @ \o mods]

AddMod ==
    /\ Len(modReq.Mods) < MaxMods
    /\ \E mod \in AllMods :
         /\ modReq' = AddModResult(modReq, mod)
         /\ built' = [built EXCEPT !.mods = @ \o <<mod>>]
    /\ encoded' = NilPacket
    /\ dump' = NoDump
    /\ UNCHANGED <<connVars, callVars>>

AddMods ==
    /\ Len(modReq.Mods) + 2 <= MaxMods
    /\ \E m1 \in AllMods, m2 \in AllMods :
         /\ modReq' = AddModsResult(modReq, <<m1, m2>>)
         /\ built' = [built EXCEPT !.mods = @ \o <<m1, m2>>]
    /\ encoded' = NilPacket
    /\ dump' = NoDump
    /\ UNCHANGED <<connVars, callVars>>

\* req.Bytes(): the request is encoded.
EncodeRequest ==
    /\ encoded' = encodeModifyRequest(modReq)
    /\ UNCHANGED <<connVars, callVars, modReq, dump, built>>

\* Basic LDIF dump of one Mod.
DumpMod(mod) ==
    LET RECURSIVE values(_, _)
        values(d, vals) ==
            IF vals = <<>> THEN d
            ELSE values(d \o mod.Modification.Name \o ": " \o Head(vals) \o "\n", Tail(vals))
        head == "changetype: modify\n"
                  \o ModMap(mod.ModOperation) \o ": " \o mod.Modification.Name \o "\n"
    IN  values(head, mod.Modification.Values) \o "-\n"

\* for _, mod := range req.Mods { dump += mod.DumpMod() }
RECURSIVE DumpMods(_, _)
DumpMods(d, mods) ==
    IF mods = <<>> THEN d ELSE DumpMods(d \o DumpMod(Head(mods)), Tail(mods))

DumpModRequest(req) == DumpMods("dn: " \o req.DN \o "\n", req.Mods)

DumpRequest ==
    /\ dump' = DumpModRequest(modReq)
    /\ UNCHANGED <<connVars, callVars, modReq, encoded, built>>

InitReq ==
    /\ isClosing = FALSE
    /\ Debug = FALSE
    /\ nextID = 1
    /\ slot = [i \in IDs |-> NoSlot]
    /\ outbound = {}
    /\ pc = [c \in Callers |-> "idle"]
    /\ op = [c \in Callers |-> "none"]
    /\ messageID = [c \in Callers |-> 0]
    /\ ok = [c \in Callers |-> TRUE]
    /\ packet = [c \in Callers |-> NilPacket]
    /\ channel = [c \in Callers |-> NoChannel]
    /\ ret = [c \in Callers |-> NoReturn]
    /\ sent = [c \in Callers |-> 0]
    /\ finished = [c \in Callers |-> FALSE]
    /\ allocs = [c \in Callers |-> 0]
    /\ submits = [c \in Callers |-> 0]
    /\ senderr = [c \in Callers |-> NilError]
    /\ builderr = [c \in Callers |-> NilError]
    /\ \E dn \in DNs : modReq = NewModifyRequest(dn) /\ built = [dn |-> dn, mods |-> <<>>]
    /\ encoded = NilPacket
    /\ dump = NoDump

NextReq == AddMod \/ AddMods \/ EncodeRequest \/ DumpRequest

ReqSpec == InitReq /\ [][NextReq]_vars

(***************************************************************************)
(* Properties.                                                             *)
(***************************************************************************)
\* The call of c has returned after awaiting on a reply channel.
Awaited(c) == pc[c] = "done" /\ channel[c] # NoChannel
\* ... and the channel yielded a reply PDU (not nil).
Replied(c) == Awaited(c) /\ ~IsNil(packet[c])
\* ... and that PDU has a body with a result code and a diagnostic text.
RepliedWithResult(c) == Replied(c) /\ HasBody(packet[c])
ReplyCode(c) == packet[c].Children[2].Children[1].Value
ReplyText(c) == packet[c].Children[2].Children[3].Value
IsErrorWithCode(e, code) == e.type = "Error" /\ e.ResultCode = code

\* C1: a reply with code 6 makes Compare return (true, nil), one with code 5
\* (false, nil), and one with any other nonzero code c (false, error with code c).
C1_CompareResultMapping ==
    \A c \in Callers :
        (RepliedWithResult(c) /\ op[c] = "Compare") =>
            /\ ReplyCode(c) = ResultCompareTrue => ret[c] = [value |-> TRUE, err |-> NilError]
            /\ ReplyCode(c) = ResultCompareFalse => ret[c] = [value |-> FALSE, err |-> NilError]
            /\ ReplyCode(c) \notin {0, ResultCompareFalse, ResultCompareTrue} =>
                   ret[c].value = FALSE /\ IsErrorWithCode(ret[c].err, ReplyCode(c))

\* C2: a reply with code 0 makes Modify return nil; a reply with a nonzero code
\* c and diagnostic text d makes it return an error with exactly code c and text d.
C2_ModifyResultMapping ==
    \A c \in Callers :
        (RepliedWithResult(c) /\ op[c] = "Modify") =>
            /\ ReplyCode(c) = 0 => ret[c].err = NilError
            /\ ReplyCode(c) # 0 =>
                   ret[c].err = [type |-> "Error", ResultCode |-> ReplyCode(c),
                                 Err |-> ReplyText(c)]

\* A Modify call in debug mode got a reply with code 80 and text "other".
C2_Witness ==
    \E c \in Callers :
        /\ RepliedWithResult(c) /\ op[c] = "Modify" /\ Debug
        /\ ReplyCode(c) = ResultOther /\ ret[c].err.Err = "other"

\* C3: a caller that was blocked awaiting when the connection closed (its
\* channel yielded nil) has a network-error outcome once its call has returned.
C3_ClosedWhileAwaitingIsNetworkError ==
    \A c \in Callers :
        (Awaited(c) /\ IsNil(packet[c])) => IsErrorWithCode(ret[c].err, ErrorNetwork)

\* C3, the part about unblocking and about Modify, under FairSpec:
\* a caller whose slot got the closed signal leaves the await, and a Modify
\* caller does so with an ErrorNetwork error.
C3_ClosedUnblocksEveryCaller ==
    \A c \in Callers :
        (pc[c] = "await" /\ slot[channel[c]].st = "closed")
            ~> (pc[c] = "done" /\ IsNil(packet[c])
                /\ (op[c] = "Modify" => IsErrorWithCode(ret[c].err, ErrorNetwork)))

\* C3, the part about Close: it leaves no caller waiting on an empty slot.
C3_CloseSignalsEveryWaiter ==
    isClosing => \A c \in Callers : pc[c] = "await" => slot[channel[c]].st # "empty"

\* The call of c holds an id the allocator issued and has not completed.
Underway(c) == pc[c] \in {"send", "await"} /\ ok[c]

\* C4: requests that are under way at the same time carry distinct message
\* ids, and an id just issued has no slot left over from an earlier request.
C4_DistinctIdsInFlight ==
    /\ \A c1 \in Callers, c2 \in Callers :
           (c1 # c2 /\ Underway(c1) /\ Underway(c2)) =>
               /\ messageID[c1] # messageID[c2]
               /\ PacketMessageID(packet[c1]) # PacketMessageID(packet[c2])
    /\ \A c \in Callers :
           (pc[c] = "send" /\ ok[c]) => slot[PacketMessageID(packet[c])].st = "none"

\* A Modify and a Compare request are in flight at the same time.
C4_Witness ==
    \E c1 \in Callers, c2 \in Callers :
        /\ c1 # c2 /\ pc[c1] = "await" /\ pc[c2] = "await"
        /\ op[c1] = "Modify" /\ op[c2] = "Compare"

\* C5: a caller receives only a reply tagged with its own message id, a slot
\* holds only a PDU tagged with its id, and no slot is handed two PDUs.
C5_ReplyToMatchingCallerOnce ==
    /\ \A c \in Callers : Replied(c) => PacketMessageID(packet[c]) = messageID[c]
    /\ \A i \in IDs : slot[i].st = "full" => PacketMessageID(slot[i].pkt) = i
    /\ \A i \in IDs : slot[i].n <= 1

\* Two requests under way, the later one answered first.
C5_Witness ==
    \E c1 \in Callers, c2 \in Callers :
        /\ Replied(c1) /\ pc[c2] = "await" /\ ~isClosing
        /\ messageID[c2] < messageID[c1]

\* C6: a Modify call that obtained a message id has run finishMessage on it
\* by the time it returns, and the registry has no entry for the id.
C6_ModifyReleasesOnEveryExit ==
    \A c \in Callers :
        (pc[c] = "done" /\ op[c] = "Modify" /\ ok[c]) =>
            finished[c] /\ slot[messageID[c]].st = "none"

\* C7: a Modify call to which the allocator signalled closing returns a
\* closing error and has sent no request PDU.
C7_ModifyClosingError ==
    \A c \in Callers :
        (pc[c] = "done" /\ op[c] = "Modify" /\ ~ok[c]) =>
            IsErrorWithCode(ret[c].err, ErrorClosing) /\ sent[c] = 0

\* C8: a Compare call to which nextMessageID returned ok=false has returned
\* (false, ErrorClosing error); it encoded nothing, sent nothing, awaited nothing.
C8_CompareClosing ==
    \A c \in Callers :
        (op[c] = "Compare" /\ ~ok[c]) =>
            /\ pc[c] = "done"
            /\ ret[c].value = FALSE /\ IsErrorWithCode(ret[c].err, ErrorClosing)
            /\ IsNil(packet[c]) /\ sent[c] = 0 /\ channel[c] = NoChannel

\* A Compare call was made on a closing connection.
C8_Witness == \E c \in Callers : op[c] = "Compare" /\ ~ok[c] /\ pc[c] = "done"

\* The Compare call of c has returned and its request ended in a network
\* failure: the submission failed, or the connection closed while it awaited,
\* or the reply had no body.
CompareNetworkFailure(c) ==
    /\ pc[c] = "done" /\ op[c] = "Compare"
    /\ \/ channel[c] = NoChannel /\ ~IsNil(packet[c])
       \/ Awaited(c) /\ IsNil(packet[c])
       \/ Replied(c) /\ ~HasBody(packet[c])

\* C9: a Compare call whose request ended in a network failure returns a
\* non-nil error.
C9_CompareSurfacesNetworkFailure ==
    \A c \in Callers : CompareNetworkFailure(c) => ret[c].err.type # "nil"

\* The change records of the encoding, and the parts of one.
EncodedChanges == encoded.Children[2].Children
ChangeOp(ch) == ch.Children[1].Value
ChangeName(ch) == ch.Children[2].Children[1].Value
ChangeValues(ch) == ch.Children[2].Children[2].Children

\* C10: the i-th change of the encoding is the i-th Mod (kind, attribute name)
\* and holds that Mod's values in their order; nothing is dropped or added.
C10_EncodedOrderIsInputOrder ==
    ~IsNil(encoded) =>
        /\ Len(EncodedChanges) = Len(modReq.Mods)
        /\ \A i \in 1..Len(modReq.Mods) :
               LET ch == EncodedChanges[i]
                   mod == modReq.Mods[i]
               IN  /\ ChangeOp(ch) = mod.ModOperation
                   /\ ChangeName(ch) = mod.Modification.Name
                   /\ Len(ChangeValues(ch)) = Len(mod.Modification.Values)
                   /\ \A j \in 1..Len(mod.Modification.Values) :
                          ChangeValues(ch)[j].Value = mod.Modification.Values[j]

\* Two Mods that differ in kind and attribute, the first with values b, a,
\* have been encoded.
C10_Witness ==
    /\ ~IsNil(encoded)
    /\ Len(modReq.Mods) = 2
    /\ modReq.Mods[1].ModOperation = ModReplace /\ modReq.Mods[2].ModOperation = ModAdd
    /\ modReq.Mods[1].Modification.Name = "sn" /\ modReq.Mods[2].Modification.Name = "cn"
    /\ modReq.Mods[1].Modification.Values = <<"b", "a">>

\* C11: a Mod with an empty value list is still encoded as a change record
\* whose attribute part is the attribute name followed by a value set that
\* has no elements; the record and its set are never left out.
C11_EmptyValueSetEncoded ==
    ~IsNil(encoded) =>
        \A i \in 1..Len(modReq.Mods) :
            modReq.Mods[i].Modification.Values = <<>> =>
                /\ i <= Len(EncodedChanges)
                /\ Len(EncodedChanges[i].Children) = 2
                /\ LET partAttr == EncodedChanges[i].Children[2]
                   IN  /\ partAttr.Tag = "Sequence"
                       /\ Len(partAttr.Children) = 2
                       /\ partAttr.Children[1].Value = modReq.Mods[i].Modification.Name
                       /\ partAttr.Children[2].Tag = "Set"
                       /\ Len(partAttr.Children[2].Children) = 0

\* A request whose second Mod has no values, after a Mod with values, has
\* been encoded.
C11_Witness ==
    /\ ~IsNil(encoded)
    /\ Len(modReq.Mods) = 2
    /\ modReq.Mods[1].Modification.Values = <<"a", "b">>
    /\ modReq.Mods[2].Modification.Values = <<>>
    /\ modReq.Mods[2].ModOperation = ModDelete

\* The lines the dump of a request is to consist of, and their text.
IsDefinedKind(modType) == modType \in {ModAdd, ModDelete, ModReplace}
RECURSIVE ValueLines(_, _)
ValueLines(attr, values) ==
    IF values = <<>> THEN <<>>
    ELSE <<attr \o ": " \o Head(values)>> \o ValueLines(attr, Tail(values))
ModLines(mod) ==
    <<"changetype: modify", ModMap(mod.ModOperation) \o ": " \o mod.Modification.Name>>
        \o ValueLines(mod.Modification.Name, mod.Modification.Values) \o <<"-">>
RECURSIVE ModsLines(_)
ModsLines(mods) == IF mods = <<>> THEN <<>> ELSE ModLines(Head(mods)) \o ModsLines(Tail(mods))
RequestLines(req) == <<"dn: " \o req.DN>> \o ModsLines(req.Mods)
RECURSIVE JoinLines(_)
JoinLines(lines) == IF lines = <<>> THEN "" ELSE Head(lines) \o "\n" \o JoinLines(Tail(lines))

\* C12: the dump is exactly the line 'dn: <DN>' and then, per Mod in
\* order, 'changetype: modify', '<op>: <attr>' with <op> one of add, delete,
\* replace according to the kind, one '<attr>: <value>' per value in order, and
\* '-'; no other line appears.
C12_DumpIsExactLdif ==
    dump # NoDump =>
        /\ dump = JoinLines(RequestLines(modReq))
        /\ \A i \in 1..Len(modReq.Mods) :
               ModMap(modReq.Mods[i].ModOperation) \in {"add", "delete", "replace"}

\* C12, for requests whose Mods all have a defined kind: the dump is exactly
\* those lines.
C12_DefinedKindsDumpExactLdif ==
    (dump # NoDump /\ \A i \in 1..Len(modReq.Mods) : IsDefinedKind(modReq.Mods[i].ModOperation))
        => dump = JoinLines(RequestLines(modReq))

\* C17: every Mod of a request built with NewMod, AddMod and AddMods, and
\* every change record encoded or dumped, has kind Add, Delete or Replace, and
\* has an empty value list only if its kind is Delete.
C17_ModsAreWellFormed ==
    /\ \A i \in 1..Len(modReq.Mods) :
           /\ IsDefinedKind(modReq.Mods[i].ModOperation)
           /\ modReq.Mods[i].Modification.Values = <<>>
                  => modReq.Mods[i].ModOperation = ModDelete
    /\ ~IsNil(encoded) =>
           \A i \in 1..Len(EncodedChanges) :
               /\ IsDefinedKind(ChangeOp(EncodedChanges[i]))
               /\ Len(ChangeValues(EncodedChanges[i])) = 0
                      => ChangeOp(EncodedChanges[i]) = ModDelete

C18_EarlierModsUnchanged ==
    [][/\ modReq'.DN = modReq.DN
       /\ Len(modReq'.Mods) >= Len(modReq.Mods)
       /\ SubSeq(modReq'.Mods, 1, Len(modReq.Mods)) = modReq.Mods]_vars

StrayPDU(id) == ReplyPacket(id, ResultSuccess, "stray")
ReadsUnmatched ==
    \E id \in IDs :
        /\ ~HasWaiter(StrayPDU(id))
        /\ ReaderStray(id) \/ ReaderReply(id) \/ ReaderGarbled(id)

\* C13: a PDU whose id has no registered waiter is dropped: reading it hands
\* it to no slot, so to no caller, and changes nothing in the registry; the
\* connection stays open and the reader running, so that every pending request
\* still has its slot waiting and a reply read for it afterwards gets there.
C13_UnmatchedReplyDropped ==
    /\ \A id \in IDs :
           slot[id].st = "none" =>
               LET after == Deliver(StrayPDU(id))
               IN  \A j \in IDs : after[j].st = slot[j].st /\ after[j].n = slot[j].n
    /\ \A c \in Callers :
           (~isClosing /\ pc[c] = "await" /\ messageID[c] \in outbound) =>
               /\ slot[messageID[c]].st = "empty"
               /\ LET s2 == Deliver(ReplyPacket(messageID[c], ResultSuccess, ""))[messageID[c]]
                  IN  s2.st = "full" /\ PacketMessageID(s2.pkt) = messageID[c]

\* C13, step by step: a step in which the reader reads a PDU whose id has no
\* registered waiter changes no slot and no caller and leaves the connection
\* open and every pending request pending.
C13_DropStepChangesNothing ==
    [][ReadsUnmatched =>
          /\ \A id \in IDs : slot'[id].st = slot[id].st /\ slot'[id].n = slot[id].n
          /\ UNCHANGED callVars
          /\ ~isClosing'
          /\ \A c \in Callers :
                 (pc[c] = "await" /\ messageID[c] \in outbound) =>
                     /\ messageID[c] \in outbound'
                     /\ slot'[messageID[c]].st = "empty"]_vars

\* The connection is open; one call has got its reply and released its id, so
\* a further PDU with that id has no waiter and the reader can read one (the
\* step that drops it leads back to this state); another call still waits for
\* a reply the peer owes.
C13_Witness ==
    /\ ~isClosing
    /\ \E d \in Callers :
           /\ RepliedWithResult(d) /\ finished[d]
           /\ ~HasWaiter(StrayPDU(messageID[d]))
           /\ messageID[d] \notin outbound
    /\ \E c \in Callers :
           pc[c] = "await" /\ messageID[c] \in outbound /\ slot[messageID[c]].st = "empty"

\* C14: a call takes exactly one message id and submits its request at most
\* once, so at most one request PDU is written for it; a call that failed has
\* returned without sending again.
C14_NoRetry ==
    \A c \in Callers :
        /\ allocs[c] = (IF pc[c] = "idle" THEN 0 ELSE 1)
        /\ submits[c] <= 1
        /\ sent[c] <= submits[c]
        /\ pc[c] = "send" => submits[c] = 0
        /\ pc[c] = "await" => submits[c] = 1

\* A Modify call has returned after its one submission failed, and a Compare
\* call has returned after its one submission failed.
C14_Witness ==
    \E c, d \in Callers :
        /\ op[c] = "Modify" /\ pc[c] = "done" /\ submits[c] = 1 /\ sent[c] = 0
        /\ ret[c].err.type = "Error"
        /\ op[d] = "Compare" /\ pc[d] = "done" /\ submits[d] = 1 /\ sent[d] = 0

\* What sendMessage gave this Modify call is a failure: an error, or no channel.
ModifySubmitFailed(c) ==
    /\ op[c] = "Modify" /\ submits[c] >= 1
    /\ (senderr[c].type # "nil" \/ channel[c] = NoChannel)

\* C15: a Modify call whose submission failed has returned, with the send
\* error or, when there was only no channel, a network error; it never awaits.
C15_ModifySubmitFailureReturns ==
    \A c \in Callers :
        /\ ModifySubmitFailed(c) =>
               /\ pc[c] = "done"
               /\ ret[c].err = (IF senderr[c].type # "nil" THEN senderr[c]
                                 ELSE NewError(ErrorNetwork, "Could not send message"))
        /\ (op[c] = "Modify" /\ pc[c] = "await") => channel[c] # NoChannel

\* One Modify call returned the error of a failed write, another returned
\* because sendMessage gave no channel and no error.
C15_Witness ==
    \E c, d \in Callers :
        /\ ModifySubmitFailed(c) /\ senderr[c].type # "nil"
        /\ ModifySubmitFailed(d) /\ senderr[d].type = "nil"

\* C16: a Compare call whose request could not be encoded, or whose packet
\* could not be built, has returned (false, that error); the error is not a
\* network error, and nothing was submitted or sent for the call.
C16_CompareEncodingFailure ==
    \A c \in Callers :
        (op[c] = "Compare" /\ builderr[c].type # "nil") =>
            /\ pc[c] = "done"
            /\ ret[c] = [value |-> FALSE, err |-> builderr[c]]
            /\ ret[c].err.ResultCode # ErrorNetwork
            /\ submits[c] = 0 /\ sent[c] = 0
            /\ messageID[c] \notin outbound
            /\ slot[messageID[c]].st = "none"

\* One Compare call failed encoding its request, another building its packet.
C16_Witness ==
    \E c, d \in Callers :
        /\ op[c] = "Compare" /\ builderr[c] = NewError(ErrorEncoding, "cannot encode item")
        /\ op[d] = "Compare" /\ builderr[d] = NewError(ErrorEncoding, "cannot encode control")

\* C19: Compare returns true only when the reply carried result code 6, and
\* then with a nil error; on every other outcome it returns false.
C19_CompareTrueOnlyOnCode6 ==
    \A c \in Callers :
        (op[c] = "Compare" /\ pc[c] = "done") =>
            /\ ret[c].value =>
                   /\ RepliedWithResult(c)
                   /\ ReplyCode(c) = ResultCompareTrue
                   /\ ret[c].err = NilError
            /\ ~(RepliedWithResult(c) /\ ReplyCode(c) = ResultCompareTrue) => ~ret[c].value

\* One Compare call returned true, another got a reply with a code other
\* than 6 and returned false.
C19_Witness ==
    \E c, d \in Callers :
        /\ op[c] = "Compare" /\ pc[c] = "done" /\ ret[c].value
        /\ op[d] = "Compare" /\ RepliedWithResult(d) /\ ReplyCode(d) = ResultOther
        /\ ~ret[d].value

=============================================================================
